---- MODULE Spec2Model ----
(***************************************************************************)
(* A model of review_pr.py: the configuration merge (PRReviewConfig), the  *)
(* annotation extraction and classification of review_code_with_gpt and    *)
(* format_comment_text, the patch walk and deduplication gate of           *)
(* post_inline_comments, and the control flow of main.                     *)
(*                                                                         *)
(* Strings are sequences of pieces (short strings); a patch is the         *)
(* sequence of its lines, each line a sequence of characters, so that      *)
(* startswith() is computed on the text of the line.                       *)
(***************************************************************************)
EXTENDS Integers, Sequences, FiniteSets, TLC

VARIABLES
    pc,                 \* position of the program (main and the functions it calls)
    creds,              \* which of OPENAI_API_KEY, GITHUB_TOKEN, GITHUB_REPOSITORY are set
    calls,              \* collaborator calls of this run, in order (fetches with their outcome)
    exit_code,          \* -1 (running), 0 (main returned) or 1 (sys.exit(1))
    DEFAULT_CONFIG,     \* PRReviewConfig.DEFAULT_CONFIG (class attribute)
    config,             \* self.config of the PRReviewConfig instance
    custom_config,      \* argument of the last _merge_config call (NoDoc: none yet)
    github,             \* review comments stored on the pull request (the platform's state)
    pr_files,           \* changed files of the pull request (the platform's state)
    pr_diff,            \* result of get_pull_request_diff 
    existing_comments,  \* result of get_existing_comments
    existing_comment_map, \* review_code_with_gpt: "path:position" -> body
    fileNo,             \* review_code_with_gpt: index of the file being reviewed
    reviews,            \* review_code_with_gpt: the reviews list
    all_summaries,      \* review_code_with_gpt: the summaries list
    language,           \* extraction: language of the file under extraction
    matches,            \* extraction: comment_pattern.findall(inline_comments)
    matchNo,            \* extraction: index of the next match
    inline_dict,        \* extraction: ordinal key -> merged comment text
    revNo,              \* post_inline_comments: index of the review being walked
    lineNo,             \* post_inline_comments: index of the next diff line
    position,           \* post_inline_comments: position
    plus_line_counter,  \* post_inline_comments: plus_line_counter
    comment_count,      \* post_inline_comments: comment_count (-1: not yet bound)
    posts,              \* post requests issued, in order
    walked,             \* per walked line: the ordinal and position the walk gave it
    result,             \* value returned by post_inline_comments
    run                 \* number of the run of main on this pull request

cfgVars  == <<DEFAULT_CONFIG, config, custom_config>>
mainVars == <<creds, calls, exit_code, run>>
fetchVars == <<pr_diff, existing_comments>>
revVars  == <<existing_comment_map, fileNo, reviews, all_summaries>>
extVars  == <<language, matches, matchNo, inline_dict>>
walkVars == <<revNo, lineNo, position, plus_line_counter, comment_count,
              posts, walked, result>>
platformVars == <<github, pr_files>>
vars == <<pc, cfgVars, mainVars, fetchVars, revVars, extVars, walkVars, platformVars>>

(***************************************************************************)
(* Bounds of the model.                                                    *)
(***************************************************************************)
MaxLines == 5       \* longest patch walked in SpecWalk
MaxMatches == 3     \* longest findall result in SpecExtract
MaxFiles == 2       \* longest changed-files listing in Spec
MaxWords == 3       \* longest comment text in SpecFormat
MaxRuns == 2        \* runs of main on one pull request in SpecRerun

(***************************************************************************)
(* Strings.                                                                *)
(***************************************************************************)
\* the result of get_pull_request_diff: None, or the listing of the files
NoneDiff == [is_none |-> TRUE, files |-> <<>>]
Listing(files) == [is_none |-> FALSE, files |-> files]

\* str.startswith
StartsWith(s, p) == Len(s) >= Len(p) /\ SubSeq(s, 1, Len(p)) = p

Digit == <<"0", "1", "2", "3", "4", "5", "6", "7", "8", "9">>

\* str(n) of a natural number: its decimal digits
RECURSIVE ToStr(_)
ToStr(n) == IF n < 10 THEN <<Digit[n + 1]>>
            ELSE ToStr(n \div 10) \o <<Digit[(n % 10) + 1]>>

\* "sub in s" for a marker that is one piece of the text
Contains(s, piece) == \E i \in 1..Len(s) : s[i] = piece

\* f"{path}:{position}"
CommentKey(path, pos) == <<path, ":">> \o ToStr(pos)

(***************************************************************************)
(* PRReviewConfig.  A configuration value is a scalar (a string or a list, *)
(* never mutated in place) or a mapping of inner keys to such values.      *)
(* dict.copy() is shallow: an entry of self.config that still holds the    *)
(* object of DEFAULT_CONFIG is marked shared, and updating it in place     *)
(* updates the object the class attribute holds.                           *)
(***************************************************************************)
EmptyMap == [ik \in {} |-> <<>>]
S(v) == [isdict |-> FALSE, v |-> v, m |-> EmptyMap]
D(m) == [isdict |-> TRUE, v |-> <<>>, m |-> m]
Shared == [shared |-> TRUE, val |-> S(<<>>)]
Own(value) == [shared |-> FALSE, val |-> value]
NoDoc == [k \in {} |-> S(<<>>)]

DefaultInclude == <<"*">>
DefaultExclude == <<"*.md", "*.txt", "package-lock.json", "yarn.lock">>

\* PRReviewConfig.DEFAULT_CONFIG: the keys the model follows
InitialDefaultConfig ==
    [k \in {"review_mode", "file_filters", "comment_styling"} |->
        CASE k = "review_mode" -> S(<<"standard">>)
          [] k = "file_filters" ->
                D([ik \in {"include", "exclude"} |->
                    IF ik = "include" THEN DefaultInclude ELSE DefaultExclude])
          [] OTHER ->
                D([ik \in {"custom_signature", "emoji_prefix"} |->
                    IF ik = "custom_signature" THEN <<>> ELSE <<"True">>])]

\* the value self.config[key] denotes
Lookup(cfg, dflt, key) == IF cfg[key].shared THEN dflt[key] ELSE cfg[key].val

\* self.config as a document of values
Resolved(cfg, dflt) == [k \in DOMAIN cfg |-> Lookup(cfg, dflt, k)]

\* self.DEFAULT_CONFIG.copy()
ConfigCopy(dflt) == [k \in DOMAIN dflt |-> Shared]

\* the mapping replaced wholesale by the override
DictReplaced(cur, value) == value

\* dict.update: self.config[key].update(value)
DictUpdate(cur, value) ==
    D([ik \in DOMAIN cur.m \cup DOMAIN value.m |->
        IF ik \in DOMAIN value.m THEN value.m[ik] ELSE cur.m[ik]])

\* whether _merge_config updates the mapping at key in place
UpdatesInPlace(cfg, dflt, doc, key) ==
    /\ key \in DOMAIN doc
    /\ key \in DOMAIN cfg
    /\ doc[key].isdict
    /\ Lookup(cfg, dflt, key).isdict

\* self.config after _merge_config(doc)
MergedConfig(cfg, dflt, doc) ==
    [k \in DOMAIN cfg \cup DOMAIN doc |->
        IF k \notin DOMAIN doc THEN cfg[k]
        ELSE IF UpdatesInPlace(cfg, dflt, doc, k)
             THEN IF cfg[k].shared THEN Shared
                  ELSE Own(DictUpdate(cfg[k].val, doc[k]))
             ELSE Own(doc[k])]

\* DEFAULT_CONFIG after _merge_config(doc): the shared mappings updated in place
MergedDefault(cfg, dflt, doc) ==
    [k \in DOMAIN dflt |->
        IF UpdatesInPlace(cfg, dflt, doc, k) /\ cfg[k].shared
        THEN DictUpdate(dflt[k], doc[k])
        ELSE dflt[k]]

(***************************************************************************)
(* should_review_file.  A file name or a glob pattern is read as its       *)
(* pieces: a "*" wildcard, or a literal run of characters.                 *)
(***************************************************************************)
Pieces(str) ==
    CASE str = "*" -> <<"*">>
      [] str = "*.md" -> <<"*", ".md">>
      [] str = "*.txt" -> <<"*", ".txt">>
      [] str = "*.py" -> <<"*", ".py">>
      [] str = "a.py" -> <<"a", ".py">>
      [] str = "b.js" -> <<"b", ".js">>
      [] str = "c.md" -> <<"c", ".md">>
      [] OTHER -> <<str>>

\* fnmatch.fnmatch on pieces: "*" matches any run of pieces
RECURSIVE GlobMatch(_, _)
GlobMatch(name, pat) ==
    IF pat = <<>> THEN name = <<>>
    ELSE IF Head(pat) = "*"
         THEN GlobMatch(name, Tail(pat))
              \/ (name # <<>> /\ GlobMatch(Tail(name), pat))
         ELSE name # <<>> /\ Head(name) = Head(pat)
              /\ GlobMatch(Tail(name), Tail(pat))

fnmatch(filename, pattern) == GlobMatch(Pieces(filename), Pieces(pattern))

\* the filters read in the other order: an include match accepts the file
IncludeWins(doc, filename) ==
    LET include == doc["file_filters"].m["include"]
    IN  \E i \in 1..Len(include) : fnmatch(filename, include[i])

\* PRReviewConfig.should_review_file, on the resolved configuration
should_review_file(doc, filename) ==
    LET exclude == doc["file_filters"].m["exclude"]
        include == doc["file_filters"].m["include"]
    IN  IF \E i \in 1..Len(exclude) : fnmatch(filename, exclude[i]) THEN FALSE
        ELSE \E i \in 1..Len(include) : fnmatch(filename, include[i])

\* get_file_language
get_file_language(file_name) ==
    LET p == Pieces(file_name)
        ext == p[Len(p)]
    IN  CASE ext = ".py" -> "python"
          [] ext = ".js" -> "javascript"
          [] OTHER -> "unknown"

(***************************************************************************)
(* format_comment_text.  A comment text is a sequence of words.            *)
(***************************************************************************)
Marker == "[bulb] AI Review:"          \* the marker get_existing_comments looks for
InlineCode == "<code>enumerate(items)</code>"  \* an inline code span longer than 5 characters

Words == {"Bug:", "fix", "injection", "refactor", "naming", "slow",
          "complexity", "ok", "Consider", InlineCode}

\* the alternatives of the five re.search patterns that occur in word.lower()
KeywordsIn(word) ==
    CASE word = "Bug:" -> {"bug"}
      [] word = "fix" -> {"fix"}
      [] word = "injection" -> {"injection"}
      [] word = "refactor" -> {"refactor"}
      [] word = "naming" -> {"naming"}
      [] word = "slow" -> {"slow"}
      [] word = "complexity" -> {"complexity", "complex"}
      [] OTHER -> {}

\* the rules, in the order of the if/elif chain
Categories == <<"security", "performance", "bug", "style", "maintainability">>

Alternatives(category) ==
    CASE category = "security" ->
            {"security", "vulnerability", "attack", "exploit", "injection",
             "xss", "csrf", "sanitiz"}
      [] category = "performance" ->
            {"performance", "slow", "efficient", "complexity", "o(n^2)", "optimize"}
      [] category = "bug" ->
            {"bug", "error", "incorrect", "wrong", "fix", "issue", "problem", "fail"}
      [] category = "style" ->
            {"style", "format", "indent", "spacing", "naming", "convention"}
      [] category = "maintainability" ->
            {"maintain", "readability", "clean", "refactor", "complex", "understand"}
      [] OTHER -> {}

\* re.search(<pattern of category>, comment_text.lower())
Search(category, text) ==
    \E i \in 1..Len(text) : KeywordsIn(text[i]) \cap Alternatives(category) # {}

\* re.sub of a leading Issue:, Problem:, Bug:, Note: or Warning: by nothing
Boilerplate == {"Issue:", "Problem:", "Bug:", "Note:", "Warning:"}
StripBoilerplate(text) ==
    IF text # <<>> /\ Head(text) \in Boilerplate THEN Tail(text) ELSE text

\* the chain with the bug rule tried before the security rule
ClassifyBugFirst(text) ==
    IF Search("bug", text) THEN "bug"
    ELSE IF Search("security", text) THEN "security"
    ELSE IF Search("performance", text) THEN "performance"
    ELSE IF Search("style", text) THEN "style"
    ELSE IF Search("maintainability", text) THEN "maintainability"
    ELSE "suggestion"

\* the if/elif chain of lines 198-209, on the text after the boilerplate is stripped
Classify(text) ==
    IF Search("security", text) THEN "security"
    ELSE IF Search("performance", text) THEN "performance"
    ELSE IF Search("bug", text) THEN "bug"
    ELSE IF Search("style", text) THEN "style"
    ELSE IF Search("maintainability", text) THEN "maintainability"
    ELSE "suggestion"

Prefix(category) ==
    CASE category = "security" -> "[lock] **Security Issue:** "
      [] category = "performance" -> "[zap] **Performance Issue:** "
      [] category = "bug" -> "[bug] **Potential Bug:** "
      [] category = "style" -> "[art] **Style Issue:** "
      [] category = "maintainability" -> "[broom] **Maintainability:** "
      [] OTHER -> "[bulb] **Suggestion:** "

\* "instead" in comment_text.lower() or "consider" in comment_text.lower()
HasSuggestionWord(text) == \E i \in 1..Len(text) : text[i] \in {"Consider", "instead"}

\* re.search finds an inline code span and len(code_match.group(1)) > 5
HasLongInlineCode(text) == Contains(text, InlineCode)

\* Whether format_comment_text raises: re.split with a capturing group and
\* maxsplit 1 returns one or three parts, and the two-name unpacking of line
\* 219 raises ValueError on both.
FormatRaises(text, lang) ==
    LET stripped == StripBoilerplate(text)
    IN  /\ HasSuggestionWord(stripped)
        /\ lang = "python"
        /\ ~Contains(stripped, "<fence>python")
        /\ HasLongInlineCode(stripped)

\* the value format_comment_text returns when it returns
format_comment_text(text, lang) ==
    LET stripped == StripBoilerplate(text)
    IN  <<Prefix(Classify(stripped))>> \o stripped

(***************************************************************************)
(* review_code_with_gpt: the annotation mapping built from the matches.    *)
(***************************************************************************)
Additional == "**Additional issue:** "

\* str.strip on words: leading and trailing blank words go
RECURSIVE LStrip(_)
LStrip(text) == IF text # <<>> /\ Head(text) = " " THEN LStrip(Tail(text)) ELSE text
RECURSIVE RStrip(_)
RStrip(text) ==
    IF text # <<>> /\ text[Len(text)] = " "
    THEN RStrip(SubSeq(text, 1, Len(text) - 1)) ELSE text
Strip(text) == RStrip(LStrip(text))

\* inline_dict after the entry of line_num is set or extended
MergeEntry(dict, line_num, formatted) ==
    [k \in DOMAIN dict \cup {line_num} |->
        IF k # line_num THEN dict[k]
        ELSE IF line_num \in DOMAIN dict
             THEN dict[k] \o <<Additional>> \o formatted
             ELSE formatted]

\* one iteration of "for match in matches"
MergeOne(dict, match, lang) ==
    LET comment_text == Strip(match.text)
    IN  IF comment_text = <<>> THEN dict
        ELSE IF FormatRaises(comment_text, lang) THEN dict
        ELSE MergeEntry(dict, match.line_num, format_comment_text(comment_text, lang))

RECURSIVE MergeAll(_, _, _)
MergeAll(dict, ms, lang) ==
    IF ms = <<>> THEN dict ELSE MergeAll(MergeOne(dict, Head(ms), lang), Tail(ms), lang)

EmptyDict == [k \in {} |-> <<>>]

(***************************************************************************)
(* post_inline_comments: the walk of a patch.  A line is the sequence of   *)
(* its characters; a patch is patch.split('\n').                           *)
(***************************************************************************)
HunkLine == <<"@", "@", " ", "h">>            \* "@@ h": a hunk header
AddLine == <<"+", "x">>                       \* "+x": an added line
PlusPlusLine == <<"+", "+", "+", " ", "x">>   \* "+++ x"
ContextLine == <<" ", "x">>                   \* " x": a context line
MinusLine == <<"-", "-", "-", " ", "a">>      \* "--- a"

\* diff_line.startswith('+') and not diff_line.startswith('+++ ')
IsPlusLine(diff_line) ==
    StartsWith(diff_line, <<"+">>) /\ ~StartsWith(diff_line, <<"+", "+", "+", " ">>)

\* diff_line.startswith('@@ ')
IsHunkHeader(diff_line) == StartsWith(diff_line, <<"@", "@", " ">>)

\* the position counted on without a reset at a hunk header
PositionNoReset(diff_line, pos) == pos + 1

\* the position left as it is when a duplicate is skipped
PositionSkipUncounted(pos) == pos

\* position after a '+' line skipped as a duplicate: line 549
PositionAfterSkip(pos) == pos + 1

\* the hunk header taking position 1 itself, the line below it position 2
PositionHeaderCounted(diff_line, pos) == IF IsHunkHeader(diff_line) THEN 2 ELSE pos + 1

\* position after a line that is not a '+' line: lines 602-607
PositionAfterOther(diff_line, pos) == IF IsHunkHeader(diff_line) THEN 1 ELSE pos + 1

\* The (ordinal, position) the walk of lines 531-607 gives each line of a
\* patch: ordinal 0 for a line that is not a '+' line.
RECURSIVE WalkTable(_)
WalkTable(patch) ==
    IF patch = <<>> THEN <<>>
    ELSE LET n == Len(patch)
             before == WalkTable(SubSeq(patch, 1, n - 1))
             prev == IF n = 1 THEN <<>> ELSE patch[n - 1]
             pos == IF n = 1 THEN 1
                    ELSE IF IsPlusLine(prev) THEN before[n - 1].pos + 1
                    ELSE PositionAfterOther(prev, before[n - 1].pos)
             count == Cardinality({i \in 1..n : IsPlusLine(patch[i])})
         IN  Append(before, [ordinal |-> IF IsPlusLine(patch[n]) THEN count ELSE 0,
                             pos |-> pos])

\* styling.get(key, default) of config.get("comment_styling", {})
Styling(doc, key, default) ==
    IF "comment_styling" \in DOMAIN doc /\ key \in DOMAIN doc["comment_styling"].m
    THEN doc["comment_styling"].m[key] ELSE default

\* the body of an inline comment: lines 556-585
CommentBody(doc, comment_text, code_content) ==
    (IF Styling(doc, "emoji_prefix", <<"True">>) = <<"True">>
        THEN <<"### AI Code Review">> ELSE <<"### Code Review">>)
    \o (IF /\ Styling(doc, "show_code_block", <<"True">>) = <<"True">>
           /\ Strip(code_content) # <<>>
           /\ Styling(doc, "show_code_preview", <<"False">>) = <<"True">>
        THEN <<"<fence>">> ELSE <<>>)
    \o comment_text
    \o (IF /\ Styling(doc, "show_details", <<"True">>) = <<"True">>
           /\ Styling(doc, "show_details", <<"False">>) = <<"True">>
        THEN <<"<details>">> ELSE <<>>)
    \o Styling(doc, "custom_signature", <<>>)

IntResult(n) == [kind |-> "int", n |-> n]
NoneResult == [kind |-> "None", n |-> 0]
Unset == [kind |-> "unset", n |-> 0]

PostOutcomes == {"201", "422", "raised"}

\* lines 506-513: the pull request is fetched for its head commit
PostStart ==
    /\ pc = "post_start"
    /\ calls' = Append(calls, "pr_info")
    /\ \E outcome \in {"sha", "no_sha", "raised"} :
        CASE outcome = "sha" ->
                /\ comment_count' = 0
                /\ walked' = [i \in 1..Len(reviews) |-> <<>>]
                /\ revNo' = 1 /\ lineNo' = 1 /\ position' = 1 /\ plus_line_counter' = 0
                /\ pc' = "walk"
                /\ UNCHANGED result
          [] outcome = "no_sha" ->
                /\ result' = NoneResult
                /\ pc' = "post_returned"
                /\ UNCHANGED <<comment_count, revNo, lineNo, position, plus_line_counter,
                               walked>>
          [] OTHER ->
                /\ result' = IntResult(0)
                /\ pc' = "post_returned"
                /\ UNCHANGED <<comment_count, revNo, lineNo, position, plus_line_counter,
                               walked>>
    /\ UNCHANGED <<posts, cfgVars, creds, exit_code, run, fetchVars, revVars,
                   extVars, platformVars>>

\* one iteration of "for diff_line in lines": lines 534-607
WalkLine ==
    /\ pc = "walk"
    /\ revNo <= Len(reviews)
    /\ lineNo <= Len(reviews[revNo].patch)
    /\ LET rev == reviews[revNo]
           diff_line == rev.patch[lineNo]
           line_str == ToStr(plus_line_counter + 1)
           comment_key == CommentKey(rev.file_name, position)
           doc == Resolved(config, DEFAULT_CONFIG)
       IN  /\ lineNo' = lineNo + 1
           /\ IF IsPlusLine(diff_line)
              THEN /\ plus_line_counter' = plus_line_counter + 1
                   /\ walked' = [walked EXCEPT ![revNo] =
                                    Append(@, [ordinal |-> plus_line_counter + 1,
                                               pos |-> position])]
                   /\ IF line_str \in DOMAIN rev.inline_dict
                      THEN IF comment_key \in DOMAIN rev.existing
                           THEN /\ position' = PositionAfterSkip(position)
                                /\ UNCHANGED <<pc, posts, comment_count, result, github,
                                               calls>>
                           ELSE \E status \in PostOutcomes :
                                /\ calls' = Append(calls, "post")
                                /\ posts' = Append(posts,
                                      [run |-> run, rev |-> revNo, path |-> rev.file_name,
                                       position |-> position,
                                       ordinal |-> plus_line_counter + 1,
                                       status |-> status,
                                       body |-> CommentBody(doc, rev.inline_dict[line_str],
                                                            Tail(diff_line))])
                                /\ IF status = "raised"
                                   THEN /\ pc' = "post_returned"
                                        /\ result' = IntResult(0)
                                        /\ UNCHANGED <<position, comment_count, github>>
                                   ELSE /\ position' = position + 1
                                        /\ comment_count' =
                                             IF status = "201" THEN comment_count + 1
                                             ELSE comment_count
                                        /\ github' =
                                             IF status = "201"
                                             THEN Append(github,
                                                    [path |-> rev.file_name,
                                                     position |-> position,
                                                     body |-> CommentBody(doc,
                                                        rev.inline_dict[line_str],
                                                        Tail(diff_line)),
                                                     own |-> TRUE, run |-> run])
                                             ELSE github
                                        /\ UNCHANGED <<pc, result>>
                      ELSE /\ position' = position + 1
                           /\ UNCHANGED <<pc, posts, comment_count, result, github, calls>>
              ELSE /\ position' = PositionAfterOther(diff_line, position)
                   /\ walked' = [walked EXCEPT ![revNo] =
                                    Append(@, [ordinal |-> 0, pos |-> position])]
                   /\ UNCHANGED <<pc, plus_line_counter, posts, comment_count, result,
                                  github, calls>>
    /\ UNCHANGED <<revNo, cfgVars, creds, exit_code, run, fetchVars, revVars, extVars,
                   pr_files>>

\* the next "for file_name, patch, inline_dict, existing_comments in reviews":
\* lines 515-532
WalkNextFile ==
    /\ pc = "walk"
    /\ revNo <= Len(reviews)
    /\ lineNo > Len(reviews[revNo].patch)
    /\ revNo' = revNo + 1
    /\ lineNo' = 1 /\ position' = 1 /\ plus_line_counter' = 0
    /\ UNCHANGED <<pc, comment_count, posts, walked, result, cfgVars, mainVars, fetchVars,
                   revVars, extVars, platformVars>>

\* lines 609-610
WalkReturn ==
    /\ pc = "walk"
    /\ revNo > Len(reviews)
    /\ result' = IntResult(comment_count)
    /\ pc' = "post_returned"
    /\ UNCHANGED <<revNo, lineNo, position, plus_line_counter, comment_count, posts,
                   walked, cfgVars, mainVars, fetchVars, revVars, extVars, platformVars>>

(***************************************************************************)
(* PRReviewConfig.__init__ and load_custom_config, step by step.           *)
(***************************************************************************)
DocValues(key) ==
    CASE key = "review_mode" -> {S(<<"thorough">>), D([ik \in {"x"} |-> <<"1">>])}
      [] key = "file_filters" ->
            {S(<<"off">>),
             D([ik \in {"exclude"} |-> <<"*.py">>]),
             D([ik \in {"include"} |-> <<"*.py">>]),
             D([ik \in {"include", "exclude"} |-> <<"*.txt">>]),
             D([ik \in {"depth"} |-> <<"1">>])}
      [] OTHER -> {S(<<"x">>)}

\* the override documents a repository may hold
ConfigDocs ==
    UNION {{doc \in [keys -> UNION {DocValues(k) : k \in keys}] :
                \A k \in keys : doc[k] \in DocValues(k)} :
           keys \in SUBSET {"review_mode", "file_filters", "extra"}}

\* line 67
CfgConstruct ==
    /\ pc = "cfg_new"
    /\ config' = ConfigCopy(DEFAULT_CONFIG)
    /\ custom_config' = NoDoc
    /\ pc' = "cfg_repo"
    /\ UNCHANGED <<DEFAULT_CONFIG, mainVars, fetchVars, revVars, extVars, walkVars,
                   platformVars>>

\* lines 84-108: the configuration of the repository, at CONFIG_PATH or at
\* a default location; a document loaded from CONFIG_PATH ends the loading
CfgLoadRepo ==
    /\ pc = "cfg_repo"
    /\ \E doc \in ConfigDocs, via \in {"config_path", "default_path"} :
        /\ config' = MergedConfig(config, DEFAULT_CONFIG, doc)
        /\ DEFAULT_CONFIG' = MergedDefault(config, DEFAULT_CONFIG, doc)
        /\ custom_config' = doc
        /\ pc' = IF via = "config_path" /\ doc # NoDoc THEN "cfg_env" ELSE "cfg_action"
    /\ UNCHANGED <<mainVars, fetchVars, revVars, extVars, walkVars, platformVars>>

\* lines 110-120: default_config.yml beside the script
CfgLoadAction ==
    /\ pc = "cfg_action"
    /\ \E doc \in ConfigDocs :
        /\ config' = MergedConfig(config, DEFAULT_CONFIG, doc)
        /\ DEFAULT_CONFIG' = MergedDefault(config, DEFAULT_CONFIG, doc)
        /\ custom_config' = doc
    /\ pc' = "cfg_env"
    /\ UNCHANGED <<mainVars, fetchVars, revVars, extVars, walkVars, platformVars>>

\* lines 70-74: REVIEW_MODE of the environment
CfgEnv ==
    /\ pc = "cfg_env"
    /\ \E review_mode \in {<<>>, <<"concise">>} :
        config' = IF review_mode # <<>>
                  THEN [config EXCEPT !["review_mode"] = Own(S(review_mode))]
                  ELSE config
    /\ custom_config' = NoDoc
    /\ pc' = "cfg_done"
    /\ UNCHANGED <<DEFAULT_CONFIG, mainVars, fetchVars, revVars, extVars, walkVars,
                   platformVars>>

\* another PRReviewConfig() in the same process
CfgNew ==
    /\ pc = "cfg_done"
    /\ pc' = "cfg_new"
    /\ custom_config' = NoDoc
    /\ UNCHANGED <<DEFAULT_CONFIG, config, mainVars, fetchVars, revVars, extVars,
                   walkVars, platformVars>>

(***************************************************************************)
(* review_code_with_gpt: the loop over the matches, step by step.          *)
(***************************************************************************)
\* one iteration of "for match in matches": lines 447-472
ProcessMatch ==
    /\ pc = "extract"
    /\ matchNo <= Len(matches)
    /\ inline_dict' = MergeOne(inline_dict, matches[matchNo], language)
    /\ matchNo' = matchNo + 1
    /\ UNCHANGED <<pc, language, matches, cfgVars, mainVars, fetchVars, revVars,
                   walkVars, platformVars>>

(***************************************************************************)
(* main and the functions it calls.                                        *)
(***************************************************************************)
Match(line_num, text) == [line_num |-> line_num, text |-> text]

\* what the model may answer for a file: the matches of its inline comments
MainResponses ==
    {<<>>,
     <<Match(<<"1">>, <<"fix">>)>>,
     <<Match(<<"1">>, <<"Consider", InlineCode>>), Match(<<"2">>, <<"ok">>)>>,
     <<Match(<<"2">>, <<"slow">>), Match(<<"1">>, <<"fix">>)>>}

\* the entry put before the others
reviews_prepend(list, entry) == <<entry>> \o list

\* reviews.append(...): lines 478-480
reviews_append(list, entry) == Append(list, entry)

FileA == [filename |-> "a.py", patch |-> <<HunkLine, AddLine, AddLine>>]
FileB == [filename |-> "b.js", patch |-> <<HunkLine, ContextLine, AddLine>>]
FileC == [filename |-> "c.md", patch |-> <<HunkLine, AddLine>>]
FileD == [filename |-> "d.py", patch |-> <<>>]       \* no patch (a binary file)
Catalog == {FileA, FileB, FileC, FileD}

\* a comment stored by an earlier version of the tool, with the marker
MarkedComment == [path |-> "a.py", position |-> 2, body |-> <<Marker, "old">>,
                  own |-> FALSE, run |-> 0]
\* a person's comment, and one whose position is null (an outdated diff)
HumanComment == [path |-> "a.py", position |-> 1, body |-> <<"nit">>,
                 own |-> FALSE, run |-> 0]

SignatureDoc ==
    [k \in {"comment_styling"} |-> D([ik \in {"custom_signature"} |-> <<Marker>>])]
\* overrides of one inner key of file_filters
IncludePyDoc == [k \in {"file_filters"} |-> D([ik \in {"include"} |-> <<"*.py">>])]
ExcludePyDoc == [k \in {"file_filters"} |-> D([ik \in {"exclude"} |-> <<"*.py">>])]
MainDocs == {NoDoc, SignatureDoc, IncludePyDoc, ExcludePyDoc}

AllSet == [key |-> TRUE, token |-> TRUE, repo |-> TRUE]

\* lines 664-684
MainStart ==
    /\ pc = "start"
    /\ IF ~creds.key \/ ~creds.token
       THEN pc' = "exited" /\ exit_code' = 1
       ELSE pc' = "config" /\ UNCHANGED exit_code
    /\ UNCHANGED <<creds, calls, run, cfgVars, fetchVars, revVars, extVars, walkVars,
                   platformVars>>

\* line 687: PRReviewConfig(); the repository is asked for its configuration
\* when GITHUB_REPOSITORY and GITHUB_TOKEN are set
LoadConfig ==
    /\ pc = "config"
    /\ \E doc \in (IF creds.repo /\ creds.token THEN MainDocs ELSE {NoDoc}) :
        LET copy == ConfigCopy(DEFAULT_CONFIG)
        IN  /\ config' = MergedConfig(copy, DEFAULT_CONFIG, doc)
            /\ DEFAULT_CONFIG' = MergedDefault(copy, DEFAULT_CONFIG, doc)
            /\ custom_config' = doc
    /\ calls' = IF creds.repo /\ creds.token THEN Append(calls, "config") ELSE calls
    /\ pc' = "fetch_diff"
    /\ UNCHANGED <<creds, exit_code, run, fetchVars, revVars, extVars, walkVars,
                   platformVars>>

\* get_pull_request_diff: the listing, or None on a status other than 200 or
\* an exception; without GITHUB_REPOSITORY the URL names no repository
FetchDiff ==
    /\ pc = "fetch_diff"
    /\ \E ok \in (IF creds.repo THEN BOOLEAN ELSE {FALSE}) :
        /\ pr_diff' = IF ok THEN Listing(pr_files) ELSE NoneDiff
        /\ calls' = Append(calls, IF ok THEN "diff_ok" ELSE "diff_failed")
    /\ pc' = "fetch_comments"
    /\ UNCHANGED <<creds, exit_code, run, cfgVars, existing_comments, revVars, extVars,
                   walkVars, platformVars>>

\* get_existing_comments: the comments whose body holds the marker, or []
HasMarker(comment) == Contains(comment.body, Marker)
FetchExisting ==
    /\ pc = "fetch_comments"
    /\ \E ok \in (IF creds.repo THEN BOOLEAN ELSE {FALSE}) :
        /\ existing_comments' = IF ok THEN SelectSeq(github, HasMarker) ELSE <<>>
        /\ calls' = Append(calls, IF ok THEN "comments_ok" ELSE "comments_failed")
    /\ pc' = "review_start"
    /\ UNCHANGED <<creds, exit_code, run, cfgVars, pr_diff, revVars, extVars, walkVars,
                   platformVars>>

\* lines 341-348: existing_comment_map
RECURSIVE CommentMap(_)
CommentMap(comments) ==
    IF comments = <<>> THEN EmptyDict
    ELSE LET comment == comments[Len(comments)]
             before == CommentMap(SubSeq(comments, 1, Len(comments) - 1))
             key == CommentKey(comment.path, comment.position)
         IN  IF comment.path # "" /\ comment.position # 0
             THEN [k \in DOMAIN before \cup {key} |->
                      IF k = key THEN comment.body ELSE before[k]]
             ELSE before

\* lines 331-350: iterating over None raises TypeError, which main turns
\* into sys.exit(1)
ReviewStart ==
    /\ pc = "review_start"
    /\ existing_comment_map' = CommentMap(existing_comments)
    /\ reviews' = <<>>
    /\ all_summaries' = <<>>
    /\ fileNo' = 1
    /\ IF pr_diff.is_none
       THEN pc' = "exited" /\ exit_code' = 1
       ELSE pc' = "review_file" /\ UNCHANGED exit_code
    /\ UNCHANGED <<creds, calls, run, cfgVars, fetchVars, extVars, walkVars,
                   platformVars>>

\* one iteration of "for file in file_diffs": lines 350-484
ReviewFile ==
    /\ pc = "review_file"
    /\ fileNo <= Len(pr_diff.files)
    /\ fileNo' = fileNo + 1
    /\ LET file == pr_diff.files[fileNo]
           doc == Resolved(config, DEFAULT_CONFIG)
           lang == get_file_language(file.filename)
       IN  IF file.patch = <<>> \/ ~should_review_file(doc, file.filename)
           THEN UNCHANGED <<calls, reviews, all_summaries>>
           ELSE /\ calls' = Append(calls, "model")
                /\ \/ /\ all_summaries' =
                            Append(all_summaries, [file |-> file.filename, error |-> TRUE])
                      /\ UNCHANGED reviews
                   \/ \E response \in MainResponses :
                        LET dict == MergeAll(EmptyDict, response, lang)
                        IN  /\ all_summaries' =
                                 Append(all_summaries,
                                        [file |-> file.filename, error |-> FALSE])
                            /\ reviews' =
                                 IF dict # EmptyDict
                                 THEN reviews_append(reviews,
                                        [file_name |-> file.filename, patch |-> file.patch,
                                         inline_dict |-> dict,
                                         existing |-> existing_comment_map])
                                 ELSE reviews
    /\ UNCHANGED <<pc, creds, exit_code, run, cfgVars, fetchVars, existing_comment_map,
                   extVars, walkVars, platformVars>>

\* lines 486-488 and 697
ReviewReturn ==
    /\ pc = "review_file"
    /\ fileNo > Len(pr_diff.files)
    /\ pc' = "post_start"
    /\ UNCHANGED <<mainVars, cfgVars, fetchVars, revVars, extVars, walkVars, platformVars>>

\* post_general_summary and the end of main: lines 700-702
PostSummary ==
    /\ pc = "post_returned"
    /\ calls' = Append(calls, "summary")
    /\ exit_code' = 0
    /\ pc' = "done"
    /\ UNCHANGED <<creds, run, cfgVars, fetchVars, revVars, extVars, walkVars,
                   platformVars>>

\* main is run again on the same pull request, in a new process
Rerun ==
    /\ pc = "done"
    /\ run < MaxRuns
    /\ run' = run + 1
    /\ pc' = "start"
    /\ calls' = <<>>
    /\ exit_code' = -1
    /\ DEFAULT_CONFIG' = InitialDefaultConfig
    /\ config' = NoDoc
    /\ custom_config' = NoDoc
    /\ pr_diff' = NoneDiff
    /\ existing_comments' = <<>>
    /\ existing_comment_map' = EmptyDict
    /\ fileNo' = 0
    /\ reviews' = <<>>
    /\ all_summaries' = <<>>
    /\ revNo' = 0 /\ lineNo' = 0 /\ position' = 0 /\ plus_line_counter' = 0
    /\ comment_count' = -1
    /\ walked' = <<>>
    /\ result' = Unset
    /\ UNCHANGED <<creds, posts, extVars, platformVars>>

(***************************************************************************)
(* Initial states and specifications.                                      *)
(***************************************************************************)
SeqsUpTo(elems, n) == UNION {[1..k -> elems] : k \in 0..n}

InitExtractIdle ==
    /\ language = "unknown"
    /\ matches = <<>>
    /\ matchNo = 1
    /\ inline_dict = EmptyDict

InitWalkIdle ==
    /\ revNo = 0 /\ lineNo = 0 /\ position = 0 /\ plus_line_counter = 0
    /\ comment_count = -1
    /\ posts = <<>>
    /\ walked = <<>>
    /\ result = Unset

InitReviewIdle ==
    /\ pr_diff = NoneDiff
    /\ existing_comments = <<>>
    /\ existing_comment_map = EmptyDict
    /\ fileNo = 0
    /\ reviews = <<>>
    /\ all_summaries = <<>>

InitConfigIdle ==
    /\ DEFAULT_CONFIG = InitialDefaultConfig
    /\ config = NoDoc
    /\ custom_config = NoDoc

\* main, started on a pull request
Init ==
    /\ pc = "start"
    /\ creds \in [key : BOOLEAN, token : BOOLEAN, repo : BOOLEAN]
    /\ calls = <<>>
    /\ exit_code = -1
    /\ run = 1
    /\ github \in {<<>>, <<MarkedComment>>, <<HumanComment>>}
    /\ pr_files \in SeqsUpTo(Catalog, MaxFiles)
    /\ InitConfigIdle /\ InitReviewIdle /\ InitExtractIdle /\ InitWalkIdle

Next ==
    \/ MainStart \/ LoadConfig \/ FetchDiff \/ FetchExisting
    \/ ReviewStart \/ ReviewFile \/ ReviewReturn
    \/ PostStart \/ WalkLine \/ WalkNextFile \/ WalkReturn
    \/ PostSummary

Spec == Init /\ [][Next]_vars

\* main, run again on the same pull request
InitRerun ==
    /\ pc = "start"
    /\ creds = AllSet
    /\ calls = <<>>
    /\ exit_code = -1
    /\ run = 1
    /\ github = <<>>
    /\ pr_files \in {<<FileA>>, <<FileB>>}
    /\ InitConfigIdle /\ InitReviewIdle /\ InitExtractIdle /\ InitWalkIdle

NextRerun == Next \/ Rerun

SpecRerun == InitRerun /\ [][NextRerun]_vars

\* post_inline_comments, called with one review
WalkLines == {HunkLine, AddLine, PlusPlusLine, ContextLine, MinusLine}

\* before its first hunk header a patch holds only file-header lines
WellFormed(patch) ==
    \A i \in 1..Len(patch) :
        (\A j \in 1..i : ~IsHunkHeader(patch[j]))
            => patch[i] \in {MinusLine, PlusPlusLine}

WalkText == format_comment_text(<<"fix">>, "python")
WalkDicts == {[k \in keys |-> WalkText] : keys \in (SUBSET {<<"1">>, <<"2">>}) \ {{}}}
WalkExisting ==
    {[k \in {CommentKey("a.py", n) : n \in ps} |-> <<Marker, "old">>] :
        ps \in SUBSET {1, 2}}

InitWalk ==
    /\ pc = "post_start"
    /\ creds = AllSet
    /\ calls = <<>>
    /\ exit_code = -1
    /\ run = 1
    /\ github = <<>>
    /\ pr_files = <<>>
    /\ DEFAULT_CONFIG = InitialDefaultConfig
    /\ config = ConfigCopy(InitialDefaultConfig)
    /\ custom_config = NoDoc
    /\ pr_diff = NoneDiff
    /\ existing_comments = <<>>
    /\ existing_comment_map = EmptyDict
    /\ fileNo = 1
    /\ all_summaries = <<>>
    /\ \E patch \in SeqsUpTo(WalkLines, MaxLines) \ {<<>>},
          dict \in WalkDicts, existing \in WalkExisting :
        /\ WellFormed(patch)
        /\ reviews = <<[file_name |-> "a.py", patch |-> patch,
                        inline_dict |-> dict, existing |-> existing]>>
    /\ InitExtractIdle /\ InitWalkIdle

NextWalk == PostStart \/ WalkLine \/ WalkNextFile \/ WalkReturn

SpecWalk == InitWalk /\ [][NextWalk]_vars

\* the loop over the matches of one model response
ExtractTexts == {<<"fix">>, <<"injection", "refactor">>, <<" ">>,
                 <<"Consider", InlineCode>>, <<"ok">>}
ExtractMatches == {Match(k, t) : k \in {<<"1">>, <<"2">>}, t \in ExtractTexts}

InitExtract ==
    /\ pc = "extract"
    /\ creds = AllSet
    /\ calls = <<>>
    /\ exit_code = -1
    /\ run = 1
    /\ github = <<>>
    /\ pr_files = <<>>
    /\ language \in {"python", "javascript"}
    /\ matches \in SeqsUpTo(ExtractMatches, MaxMatches)
    /\ matchNo = 1
    /\ inline_dict = EmptyDict
    /\ InitConfigIdle /\ InitReviewIdle /\ InitWalkIdle

NextExtract == ProcessMatch

SpecExtract == InitExtract /\ [][NextExtract]_vars

\* the loop over one match, whose text is any text of MaxWords words
InitFormat ==
    /\ pc = "extract"
    /\ creds = AllSet
    /\ calls = <<>>
    /\ exit_code = -1
    /\ run = 1
    /\ github = <<>>
    /\ pr_files = <<>>
    /\ language \in {"python", "javascript"}
    /\ \E text \in SeqsUpTo(Words, MaxWords) \ {<<>>} :
        matches = <<Match(<<"1">>, text)>>
    /\ matchNo = 1
    /\ inline_dict = EmptyDict
    /\ InitConfigIdle /\ InitReviewIdle /\ InitWalkIdle

SpecFormat == InitFormat /\ [][NextExtract]_vars

\* PRReviewConfig constructed, any number of times in one process
InitConfig ==
    /\ pc = "cfg_new"
    /\ creds = AllSet
    /\ calls = <<>>
    /\ exit_code = -1
    /\ run = 1
    /\ github = <<>>
    /\ pr_files = <<>>
    /\ InitConfigIdle /\ InitReviewIdle /\ InitExtractIdle /\ InitWalkIdle

NextConfig == CfgConstruct \/ CfgLoadRepo \/ CfgLoadAction \/ CfgEnv \/ CfgNew

SpecConfig == InitConfig /\ [][NextConfig]_vars

(***************************************************************************)
(* The claims.                                                             *)
(***************************************************************************)
\* Unified diff: the added lines of a patch are the lines of its hunks that
\* begin with "+"; a "+++ " line before the first hunk is the to-file header.
InHunk(patch, i) == \E j \in 1..(i - 1) : StartsWith(patch[j], <<"@", "@", " ">>)
AddedLine(patch, i) == InHunk(patch, i) /\ StartsWith(patch[i], <<"+">>)
AddedUpTo(patch, i) == Cardinality({j \in 1..i : AddedLine(patch, j)})

\* C1: the walk gives an ordinal to exactly the added lines of the patch, and
\* the ordinals are 1, 2, ..., N in patch order: each walked line holds the
\* number of added lines up to it when it is an added line, and none otherwise.
C1_OrdinalsAreTheAddedLines ==
    \A r \in 1..Len(walked) :
        \A i \in 1..Len(walked[r]) :
            walked[r][i].ordinal =
                IF AddedLine(reviews[r].patch, i)
                THEN AddedUpTo(reviews[r].patch, i) ELSE 0

\* C2: position is 1 right after a hunk header is processed, and of two
\* successive lines with no hunk header between them the second is given a
\* position strictly greater than the first.
C2_PositionResetsAndIncreases ==
    /\ (pc = "walk" /\ revNo <= Len(reviews) /\ lineNo > 1
            /\ IsHunkHeader(reviews[revNo].patch[lineNo - 1]))
          => position = 1
    /\ \A r \in 1..Len(walked) :
        \A i \in 2..Len(walked[r]) :
            LET patch == reviews[r].patch
            IN  /\ IsHunkHeader(patch[i - 1]) => walked[r][i].pos = 1
                /\ (~IsHunkHeader(patch[i - 1]) /\ ~IsHunkHeader(patch[i]))
                      => walked[r][i].pos > walked[r][i - 1].pos

\* C2 witness: a two-hunk patch is walked to its end; the line after the
\* second header is given position 1 although hunk 1 holds two lines.
C2_Witness ==
    /\ pc = "post_returned"
    /\ reviews[1].patch = <<HunkLine, AddLine, ContextLine, HunkLine, AddLine>>
    /\ Len(walked) = 1 /\ Len(walked[1]) = 5
    /\ walked[1][3].pos = 2
    /\ walked[1][5].pos = 1

\* whether a post request was issued for the line of ordinal n of review r
Attempted(r, n) ==
    \E k \in 1..Len(posts) : posts[k].run = run /\ posts[k].rev = r /\ posts[k].ordinal = n

\* C3: when post_inline_comments has walked (the commit was obtained) and
\* returned, every annotated added line whose key "path:position" is in the
\* index has no post request, and every one whose key is absent has a post
\* request with that path and that position.
C3_DeduplicationGate ==
    (pc = "post_returned" /\ comment_count >= 0) =>
        \A r \in 1..Len(reviews) :
            LET rev == reviews[r]
                table == WalkTable(rev.patch)
            IN  \A i \in 1..Len(table) :
                    (table[i].ordinal > 0
                        /\ ToStr(table[i].ordinal) \in DOMAIN rev.inline_dict)
                    => IF CommentKey(rev.file_name, table[i].pos) \in DOMAIN rev.existing
                       THEN ~Attempted(r, table[i].ordinal)
                       ELSE \E k \in 1..Len(posts) :
                               /\ posts[k].rev = r
                               /\ posts[k].ordinal = table[i].ordinal
                               /\ posts[k].path = rev.file_name
                               /\ posts[k].position = table[i].pos

\* C4: a comment this system has posted is recognised in a following run, so
\* a run that has fetched the existing comments issues no post request at a
\* (path, position) where an earlier run of the system has stored a comment.
C4_OwnCommentsSuppressedInNextRun ==
    \A k \in 1..Len(posts) :
        (posts[k].run = run /\ run > 1 /\ Contains(calls, "comments_ok")) =>
            ~\E g \in 1..Len(github) :
                /\ github[g].own
                /\ github[g].run < run
                /\ github[g].path = posts[k].path
                /\ github[g].position = posts[k].position

\* the added lines of review r for which a post request is due: annotated,
\* and with no key in the index
Due(r) ==
    LET rev == reviews[r]
        table == WalkTable(rev.patch)
    IN  {table[i].ordinal : i \in
            {j \in 1..Len(table) :
                /\ table[j].ordinal > 0
                /\ ToStr(table[j].ordinal) \in DOMAIN rev.inline_dict
                /\ CommentKey(rev.file_name, table[j].pos) \notin DOMAIN rev.existing}}

\* the files of the listing that are to be reviewed
Eligible(i) ==
    /\ pr_diff.files[i].patch # <<>>
    /\ should_review_file(Resolved(config, DEFAULT_CONFIG), pr_diff.files[i].filename)

\* C5: a failure is file-scoped.  Once the files are reviewed, every file to
\* be reviewed has its summary entry whatever happened to the files before
\* it; and when main is done after a walk, every comment due for every
\* review has been attempted, whatever happened to the posts before it.
C5_FailureIsFileScoped ==
    /\ (pc \in {"post_start", "walk", "post_returned", "done"} /\ ~pr_diff.is_none) =>
          \A i \in 1..Len(pr_diff.files) :
              Eligible(i) =>
                  \E k \in 1..Len(all_summaries) :
                      all_summaries[k].file = pr_diff.files[i].filename
    /\ (pc = "done" /\ comment_count >= 0) =>
          \A r \in 1..Len(reviews) : \A n \in Due(r) : Attempted(r, n)

Terminated == pc \in {"done", "exited"}

\* C6: with every credential set, no failure of a collaborator call makes
\* main exit with status 1, and a run that ends has posted the summary.
C6_TransportErrorsNeverFatal ==
    creds = AllSet =>
        /\ exit_code # 1
        /\ Terminated => Contains(calls, "summary")

\* C7: with a credential or the repository identifier missing, no
\* collaborator call is ever made and the run does not end with status 0.
C7_MissingCredentialHaltsFirst ==
    (~creds.key \/ ~creds.token \/ ~creds.repo) =>
        /\ calls = <<>>
        /\ exit_code # 0
        /\ Terminated => exit_code = 1

\* the non-empty annotations with ordinal key k, in encounter order
Annotations(k) ==
    LET NonEmptyAtKey(match) == match.line_num = k /\ Strip(match.text) # <<>>
    IN  SelectSeq(matches, NonEmptyAtKey)

\* the texts of annotations, each after the first under the marker
RECURSIVE Joined(_)
Joined(annotations) ==
    IF Len(annotations) = 1
    THEN format_comment_text(Strip(annotations[1].text), language)
    ELSE Joined(SubSeq(annotations, 1, Len(annotations) - 1))
         \o <<Additional>>
         \o format_comment_text(Strip(annotations[Len(annotations)].text), language)

\* C8: when the matches are processed, the mapping holds an entry for exactly
\* the keys of the non-empty annotations, and the entry of a key holds the
\* texts of all its annotations in encounter order, each after the first
\* preceded by the "Additional issue" marker.
C8_AnnotationsMerged ==
    (pc = "extract" /\ matchNo > Len(matches)) =>
        /\ DOMAIN inline_dict = {matches[i].line_num : i \in
                                    {j \in 1..Len(matches) : Strip(matches[j].text) # <<>>}}
        /\ \A k \in DOMAIN inline_dict : inline_dict[k] = Joined(Annotations(k))

\* the category of the first rule, in the fixed order, that matches
FirstMatch(text) ==
    LET matching == {i \in 1..Len(Categories) : Search(Categories[i], text)}
    IN  IF matching = {} THEN "suggestion"
        ELSE Categories[CHOOSE i \in matching : \A j \in matching : i <= j]

\* C9: the comment made of a text is labelled with the category of the first
\* rule in the order security, performance, bug, style, maintainability that
\* matches the text (after the leading boilerplate word is stripped), with
\* "suggestion" when none matches; of two rules that match, the later one is
\* never the one assigned.
C9_FirstMatchingRuleWins ==
    (pc = "extract" /\ matchNo = 2 /\ Len(matches) = 1
        /\ matches[1].line_num \in DOMAIN inline_dict) =>
        LET text == StripBoilerplate(Strip(matches[1].text))
            label == inline_dict[matches[1].line_num][1]
        IN  /\ label = Prefix(FirstMatch(text))
            /\ \A i, j \in 1..Len(Categories) :
                  (i < j /\ Search(Categories[i], text) /\ Search(Categories[j], text))
                      => label # Prefix(Categories[j])

\* C9 witness: a text with "injection" and "refactor" is labelled security.
C9_Witness ==
    /\ pc = "extract" /\ matchNo = 2
    /\ matches = <<Match(<<"1">>, <<"injection", "refactor">>)>>
    /\ inline_dict = (<<"1">> :> <<Prefix("security"), "injection", "refactor">>)

\* the one-level merge of an override value onto a value
OneLevel(base, override) ==
    IF base.isdict /\ override.isdict
    THEN D([ik \in DOMAIN base.m \cup DOMAIN override.m |->
              IF ik \in DOMAIN override.m THEN override.m[ik] ELSE base.m[ik]])
    ELSE override

\* C10: a step that merges an override document leaves the configuration
\* with: at a key of both whose two values are mappings, the override's
\* value at each inner key of the override and the previous value at every
\* other inner key; at any other key of the override, the override's value;
\* at every other key, the previous value.
C10_MergeIsOneLevelDeep ==
    [][custom_config' # NoDoc =>
        LET before == Resolved(config, DEFAULT_CONFIG)
            after == Resolved(config', DEFAULT_CONFIG')
            doc == custom_config'
        IN  /\ DOMAIN after = DOMAIN before \cup DOMAIN doc
            /\ \A k \in DOMAIN after :
                  after[k] = IF k \notin DOMAIN doc THEN before[k]
                             ELSE IF k \in DOMAIN before THEN OneLevel(before[k], doc[k])
                             ELSE doc[k]]_vars

ExcludeOnly == [k \in {"file_filters"} |-> D([ik \in {"exclude"} |-> <<"*.py">>])]

\* C10 witness: file_filters.exclude alone was overridden on a fresh
\* configuration; file_filters.include holds its default value.
C10_Witness ==
    /\ custom_config = ExcludeOnly
    /\ "file_filters" \in DOMAIN config
    /\ Resolved(config, DEFAULT_CONFIG)["file_filters"] =
          D([ik \in {"include", "exclude"} |->
                IF ik = "include" THEN DefaultInclude ELSE <<"*.py">>])

\* whether some pattern of the list matches the path
MatchesAny(patterns, path) == \E i \in 1..Len(patterns) : fnmatch(path, patterns[i])

\* the files of the listing that review_code_with_gpt has gone through
Processed == IF pr_diff.is_none \/ fileNo = 0 THEN {} ELSE 1..(fileNo - 1)

\* whether the model was invoked for the path, and whether it has a review entry
Invoked(path) == \E k \in 1..Len(all_summaries) : all_summaries[k].file = path
HasReview(path) == \E r \in 1..Len(reviews) : reviews[r].file_name = path

\* the number of model invocations of the run
ModelCalls == Cardinality({k \in 1..Len(calls) : calls[k] = "model"})

\* C11: of the files gone through, one whose path matches an exclude pattern
\* has no model invocation and no review entry even when it matches an include
\* pattern; one that matches no exclude pattern and has a patch has a model
\* invocation exactly when it matches an include pattern; one with an empty
\* patch has none; and the model is invoked once per accepted file, no more.
C11_FileInclusionPredicate ==
    (pc \in {"review_file", "post_start"}) =>
        LET filters == Resolved(config, DEFAULT_CONFIG)["file_filters"].m
            Accepted(i) ==
                /\ pr_diff.files[i].patch # <<>>
                /\ ~MatchesAny(filters["exclude"], pr_diff.files[i].filename)
                /\ MatchesAny(filters["include"], pr_diff.files[i].filename)
        IN  /\ \A i \in Processed :
                /\ Invoked(pr_diff.files[i].filename) <=> Accepted(i)
                /\ HasReview(pr_diff.files[i].filename) => Accepted(i)
            /\ ModelCalls = Cardinality({i \in Processed : Accepted(i)})
            /\ Len(all_summaries) = ModelCalls
            /\ Len(reviews) <= ModelCalls

\* C11 witness: with "*.py" excluded and "*" included, a.py (which matches
\* both) was skipped and b.js was reviewed by the one model invocation.
C11_Witness ==
    /\ pc = "post_start"
    /\ custom_config = ExcludePyDoc
    /\ pr_diff = Listing(<<FileA, FileB>>)
    /\ ~Invoked("a.py") /\ Invoked("b.js")
    /\ ModelCalls = 1
    /\ Len(reviews) = 1 /\ reviews[1].file_name = "b.js"

\* whether the sequence a is b with some of its elements left out
RECURSIVE IsSubseq(_, _)
IsSubseq(a, b) ==
    IF a = <<>> THEN TRUE
    ELSE IF b = <<>> THEN FALSE
    ELSE IF Head(a) = Head(b) THEN IsSubseq(Tail(a), Tail(b))
    ELSE IsSubseq(a, Tail(b))

\* the (path, patch) pairs of the reviews and of the input file list
ReviewedFiles == [r \in 1..Len(reviews) |-> <<reviews[r].file_name, reviews[r].patch>>]
ListedFiles ==
    [i \in 1..Len(pr_diff.files) |-> <<pr_diff.files[i].filename, pr_diff.files[i].patch>>]

\* C12: the reviews are in the order of the input file list, and of two post
\* requests of a run the earlier one is for an earlier review, or for the
\* same review and a lower ordinal; each is for the path of its review.
C12_EmissionOrder ==
    /\ reviews # <<>> => IsSubseq(ReviewedFiles, ListedFiles)
    /\ \A k \in 1..Len(posts) :
          /\ posts[k].run = run =>
                /\ posts[k].rev \in 1..Len(reviews)
                /\ posts[k].path = reviews[posts[k].rev].file_name
          /\ \A l \in (k + 1)..Len(posts) :
                posts[k].run = posts[l].run =>
                    \/ posts[k].rev < posts[l].rev
                    \/ /\ posts[k].rev = posts[l].rev
                       /\ posts[k].ordinal < posts[l].ordinal

\* C12 witness: the model named line 2 before line 1 of a.py; the posts are
\* a.py ordinal 1, a.py ordinal 2, then b.js.
C12_Witness ==
    /\ pc = "done"
    /\ pr_diff = Listing(<<FileA, FileB>>)
    /\ Len(posts) = 3
    /\ posts[1].path = "a.py" /\ posts[1].ordinal = 1
    /\ posts[2].path = "a.py" /\ posts[2].ordinal = 2
    /\ posts[3].path = "b.js"

\* the index of the most recent hunk header before line i of the patch (0: none)
LastHeader(patch, i) ==
    LET headers == {j \in 1..(i - 1) : IsHunkHeader(patch[j])}
    IN  IF headers = {} THEN 0 ELSE CHOOSE j \in headers : \A h \in headers : h <= j

\* the line of the patch that the walk gave the ordinal n (0: none)
LineOfOrdinal(r, n) ==
    LET at == {i \in 1..Len(walked[r]) : walked[r][i].ordinal = n}
    IN  IF at = {} THEN 0 ELSE CHOOSE i \in at : TRUE

\* whether the position of every '+' line walked in a hunk, and the position
\* of the post request made for it, is the number of lines from the most
\* recent hunk header to the line, plus offset
AnchorsCountFromHeader(offset) ==
    /\ \A r \in 1..Len(walked) :
          \A i \in 1..Len(walked[r]) :
              (walked[r][i].ordinal > 0 /\ LastHeader(reviews[r].patch, i) > 0)
                  => walked[r][i].pos = i - LastHeader(reviews[r].patch, i) + offset
    /\ \A k \in 1..Len(posts) :
          (posts[k].run = run /\ posts[k].rev \in 1..Len(walked)) =>
              LET r == posts[k].rev
                  i == LineOfOrdinal(r, posts[k].ordinal)
              IN  /\ i > 0
                  /\ LastHeader(reviews[r].patch, i) > 0
                        => posts[k].position = i - LastHeader(reviews[r].patch, i) + offset

\* C13 as stated: the position of an added line is the count of the lines
\* from the most recent hunk header to the line, the header itself counted
\* (the line below the header has position 2).
C13_PositionCountsTheHeader == AnchorsCountFromHeader(1)

\* C13, amended: the position of an added line is the count of the lines
\* below the most recent hunk header down to and including the line, the
\* header itself not counted (the line below the header has position 1).
C13_PositionCountsBelowHeader == AnchorsCountFromHeader(0)

\* C13 witness: the added line below a header and a context line was posted
\* at position 2.
C13_Witness ==
    /\ pc = "post_returned"
    /\ reviews[1].patch = <<HunkLine, ContextLine, AddLine>>
    /\ Len(posts) = 1
    /\ posts[1].ordinal = 1 /\ posts[1].position = 2 /\ posts[1].status = "201"

\* C14: within one patch no two added lines are given the same position, and
\* no two post requests of a run carry the same (path, position).
C14_AnchorUniqueness ==
    /\ \A r \in 1..Len(walked) :
          \A i, j \in 1..Len(walked[r]) :
              (i # j /\ walked[r][i].ordinal > 0 /\ walked[r][j].ordinal > 0)
                  => walked[r][i].pos # walked[r][j].pos
    /\ \A k, l \in 1..Len(posts) :
          (k # l /\ posts[k].run = posts[l].run /\ posts[k].path = posts[l].path)
              => posts[k].position # posts[l].position

\* C15: DEFAULT_CONFIG holds its initial value whatever constructions and
\* merges have been made, and a configuration just constructed, with no
\* override merged yet, equals the initial defaults.
C15_DefaultConfigNeverChanged ==
    /\ DEFAULT_CONFIG = InitialDefaultConfig
    /\ pc = "cfg_repo" => Resolved(config, DEFAULT_CONFIG) = InitialDefaultConfig

\* the post requests of this run answered with status 200 or 201
Answered201 == {k \in 1..Len(posts) : posts[k].run = run /\ posts[k].status = "201"}

\* C16: once post_inline_comments has returned, by any exit path, the value
\* it returned is the number of post requests of the run that were answered
\* with status 200 or 201.
C16_ReturnedCountIsPostedCount ==
    pc \in {"post_returned", "done"} => result = IntResult(Cardinality(Answered201))

\* C17: the (ordinal, position) the walk gives each line is the one the patch
\* alone determines, whatever the annotations, the index and the outcomes of
\* the posts before it; and no step of the walk changes the annotation
\* mapping or the index of a review.
C17_PairsDependOnPatchOnly ==
    /\ [](\A r \in 1..Len(walked) :
            \A i \in 1..Len(walked[r]) :
                walked[r][i] = WalkTable(reviews[r].patch)[i])
    /\ [][pc = "walk" =>
            /\ reviews' = reviews
            /\ existing_comment_map' = existing_comment_map]_vars

\* C17 witness: added line 1 was skipped as a duplicate and the post for
\* added line 2 was rejected; the lines hold the pairs of the patch.
C17_Witness ==
    /\ pc = "post_returned"
    /\ reviews[1].patch = <<HunkLine, AddLine, AddLine, ContextLine, AddLine>>
    /\ DOMAIN reviews[1].inline_dict = {<<"1">>, <<"2">>}
    /\ CommentKey("a.py", 1) \in DOMAIN reviews[1].existing
    /\ Len(posts) = 1 /\ posts[1].ordinal = 2 /\ posts[1].status = "422"
    /\ walked[1] = WalkTable(reviews[1].patch)
    /\ walked[1][5] = [ordinal |-> 3, pos |-> 4]

====
